---- MODULE Spec2Model ----
(***************************************************************************)
(* Request-bound transactions (axum-sea-orm-tx).                           *)
(*                                                                         *)
(* Service::call binds a TxSlot to the request's extensions, runs the      *)
(* inner service, and commits the transaction (if one ended up in the      *)
(* TxSlot) when the response status is 2xx.  Tx::from_request looks the    *)
(* Lazy up in the extensions of the Request it is given and leases the     *)
(* transaction from it.                                                    *)
(*                                                                         *)
(* Rust values are modelled as follows.                                    *)
(*   Option<T>    a sequence: None = << >>, Some(x) = <<x>>                *)
(*   Slot<T>      a record [st, val]: st is the Slot's state, val the      *)
(*                Option<T> in its cell.  st = "Absent" is a Slot that     *)
(*                does not exist (not yet created, or destroyed).          *)
(*   the inner Slot<DatabaseTransaction> of a request is one heap cell     *)
(*                (variable inner); values of type Slot<..> that move      *)
(*                around (in the Lazy's lease, in the outer Slot) are the  *)
(*                reference "inner" to it.                                 *)
(***************************************************************************)
EXTENDS Naturals, Sequences, FiniteSets

\* Requests of a run.
Reqs == {"r1", "r2"}

\* Accessor calls (Tx::from_request) made while one request is processed.
MaxCalls == 2

\* Status codes a downstream response may carry (one or two per class).
Statuses == {199, 200, 299, 300, 404, 500}

\* The error types E a Layer may be built with: the crate's Error, or a
\* caller's own type (tests/lib.rs MyError).
ErrorTypes == {"Error", "MyError"}

VARIABLES
    pc,         \* per request: position of Service::call / the pipeline
    layered,    \* per request: is the Layer applied to the app serving it
    layerE,     \* per request: the Layer's error type E
    bag,        \* per request: the Request (its extensions) downstream holds
    outer,      \* per request: TxSlot.0, the Slot<Option<Slot<Tx>>>
    inner,      \* per request: the Slot<DatabaseTransaction>
    handles,    \* per request: live Tx values (leases on the inner slot)
    granted,    \* per request: Tx values from_request has returned
    begins,     \* per request: calls of pool.begin()
    begun,      \* per request: calls of pool.begin() that returned Ok
    commits,    \* per request: calls of DatabaseTransaction::commit
    mwCommits,  \* per request: of these, the calls made by TxSlot::commit
    persisted,  \* per request: calls of commit that returned Ok
    rollbacks,  \* per request: transactions dropped uncommitted
    status,     \* per request: status of the downstream response (0: none)
    finalize,   \* per request: result of the middleware's TxSlot::commit
    response,   \* per request: the response Service::call returned
    result,     \* per request: result of the latest Tx::from_request
    calls,      \* per request: number of Tx::from_request calls made
    rejection   \* per request: the response made of the latest call's error

vars == <<pc, layered, layerE, bag, outer, inner, handles, granted, begins, begun,
          commits, mwCommits, persisted, rollbacks, status, finalize,
          response, result, calls, rejection>>

-----------------------------------------------------------------------------
(* Option<T> *)

None == << >>

Some(x) == <<x>>

\* Option::flatten: Option<Option<T>> -> Option<T>
flatten(o) == IF o = None THEN None ELSE o[1]

-----------------------------------------------------------------------------
(* Slot<T> and Lease<T> (mod slot) *)

NoSlot == [st |-> "Absent", val |-> None]

\* Slot::new(value): a Slot holding value, not on loan.
Slot_new(v) == [st |-> "Filled", val |-> Some(v)]

\* Slot::lease(&mut self) -> Option<Lease<T>>: Some (and the Slot becomes
\* Leased) if the Slot holds a value, None otherwise.
lease(s) ==
    IF s.st = "Filled"
    THEN [slot |-> [st |-> "Leased", val |-> None], lease |-> s.val]
    ELSE [slot |-> s, lease |-> None]

\* Slot::new_leased(value) -> (Slot<T>, Lease<T>): a Slot already on loan.
new_leased(v) == [slot |-> lease(Slot_new(v)).slot, lease |-> v]

\* Drop of a Lease holding v (release): v goes back to the Slot the Lease
\* came from; if that Slot is no longer there, v is dropped with the Lease.
release(s, v) == IF s.st = "Leased" THEN [st |-> "Filled", val |-> Some(v)] ELSE s

\* TRUE iff the drop of a Lease on s puts its value back (nothing is dropped).
returns(s) == s.st = "Leased"

\* Lease::steal(self) -> T: the value leaves for good, the Slot stays empty.
steal(s) == IF s.st = "Absent" THEN s ELSE [st |-> "Empty", val |-> None]

\* Slot::into_inner(self) -> Option<T>: the value if the Slot holds one.
into_inner(s) == IF s.st = "Filled" THEN s.val ELSE None

-----------------------------------------------------------------------------
(* Values the extensions, the slots and a response can hold *)

\* The Request downstream holds.  has = "none": the Request was consumed or
\* dropped; "empty": its extensions hold no Lazy; "lazy": they hold the Lazy
\* whose field tx is a Lease<Option<Slot<DatabaseTransaction>>> holding tx.
NoRequest == [has |-> "none", tx |-> None]

PlainRequest == [has |-> "empty", tx |-> None]

NoResponse == [kind |-> "none", status |-> 0]

\* No rejection: the accessor call returned a Tx, or none was made.
NoRejection == [by |-> "none", status |-> 0]

\* is_success, were it a test for 200 OK alone.
is_success_ok_only(s) == s = 200

\* is_success, were it a test for "not a server error".
is_success_below_500(s) == s >= 200 /\ s < 500

\* is_success, were it to take the informational class (1xx) for success too.
is_success_informational(s) == s >= 100 /\ s < 300

\* http::StatusCode::is_success as Service::call uses it: the 2xx class.
is_success(s) == s >= 200 /\ s < 300

\* IntoResponse, were every error answered as the crate's Error is.
into_response_default(E) == 500

\* IntoResponse for the error type E: the crate's Error answers 500
\* INTERNAL_SERVER_ERROR, the test suite's MyError 418 IM_A_TEAPOT.
into_response(E) == IF E = "Error" THEN 500 ELSE 418

\* The response axum makes of the Rejection of an accessor Tx<C, E> whose
\* call returned res.
rejection_of(E, res) ==
    IF res = "Ok" THEN NoRejection ELSE [by |-> E, status |-> into_response(E)]

\* Drop of a value of type Option<Slot<DatabaseTransaction>>: with Some, the
\* inner Slot i is destroyed, and the transaction with it if the Slot holds
\* one (a dropped DatabaseTransaction is rolled back).
drop_option_slot(o, i) ==
    IF o = None
    THEN [inner |-> i, dropped |-> 0]
    ELSE [inner |-> NoSlot, dropped |-> IF i.st = "Filled" THEN 1 ELSE 0]

-----------------------------------------------------------------------------
(* struct Lazy *)

\* Lazy::get_or_begin, were it to lease the new Slot without storing it in
\* the Option.
get_or_begin_forgets(tx, i, beginOk) ==
    IF tx # None
    THEN LET l == lease(i)
         IN  [res   |-> IF l.lease # None THEN "Ok" ELSE "OverlappingExtractors",
              tx    |-> tx, inner |-> l.slot, began |-> 0, ok |-> 0]
    ELSE IF ~beginOk
         THEN [res |-> "Database", tx |-> tx, inner |-> i, began |-> 1, ok |-> 0]
         ELSE LET l == lease(Slot_new("tx"))
              IN  [res   |-> IF l.lease # None THEN "Ok" ELSE "OverlappingExtractors",
                   tx    |-> None, inner |-> l.slot, began |-> 1, ok |-> 1]

\* Lazy::get_or_begin, were it to call begin a second time when it failed and
\* to report the conflict error when both calls failed.
get_or_begin_retries(tx, i, beginOk) ==
    IF tx # None
    THEN LET l == lease(i)
         IN  [res   |-> IF l.lease # None THEN "Ok" ELSE "OverlappingExtractors",
              tx    |-> tx, inner |-> l.slot, began |-> 0, ok |-> 0]
    ELSE IF ~beginOk
         THEN [res |-> "OverlappingExtractors", tx |-> tx, inner |-> i,
               began |-> 2, ok |-> 0]
         ELSE LET l == lease(Slot_new("tx"))
              IN  [res   |-> IF l.lease # None THEN "Ok" ELSE "OverlappingExtractors",
                   tx    |-> Some("inner"), inner |-> l.slot, began |-> 1, ok |-> 1]

\* Lazy::get_or_begin(&mut self): tx is the Option the Lazy's lease holds, i
\* the inner Slot, beginOk whether pool.begin() succeeds if it is called.
get_or_begin(tx, i, beginOk) ==
    IF tx # None
    THEN LET l == lease(i)
         IN  [res   |-> IF l.lease # None THEN "Ok" ELSE "OverlappingExtractors",
              tx    |-> tx, inner |-> l.slot, began |-> 0, ok |-> 0]
    ELSE IF ~beginOk
         THEN [res |-> "Database", tx |-> tx, inner |-> i, began |-> 1, ok |-> 0]
         ELSE LET l == lease(Slot_new("tx"))
              IN  [res   |-> IF l.lease # None THEN "Ok" ELSE "OverlappingExtractors",
                   tx    |-> Some("inner"), inner |-> l.slot, began |-> 1, ok |-> 1]

\* Drop of the Lazy, were the Option its Lease holds dropped with it.
Lazy_drop_discards(tx, o, i) ==
    LET d == drop_option_slot(tx, i)
    IN  [outer |-> o, inner |-> d.inner, dropped |-> d.dropped]

\* Drop of the Lazy (with the extensions that hold it): its Lease, holding
\* tx, goes back to the outer Slot o; if o is gone, tx is dropped.
Lazy_drop(tx, o, i) ==
    IF returns(o)
    THEN [outer |-> release(o, tx), inner |-> i, dropped |-> 0]
    ELSE LET d == drop_option_slot(tx, i)
         IN  [outer |-> o, inner |-> d.inner, dropped |-> d.dropped]

-----------------------------------------------------------------------------
(* struct TxSlot *)

\* TxSlot::bind(extensions, pool): the outer Slot, leased to the Lazy that
\* is inserted into the extensions.
bind == [slot |-> new_leased(None).slot,
         request |-> [has |-> "lazy", tx |-> new_leased(None).lease]]

\* TxSlot::commit, were it to commit whenever the outer Slot holds a value,
\* without looking whether that value is Some.
TxSlot_commit_unflattened(o, i) ==
    IF into_inner(o) = None
    THEN [tx |-> None, inner |-> i]
    ELSE [tx |-> Some("tx"), inner |-> NoSlot]

\* TxSlot::commit, were it to take the transaction out of the inner Slot
\* even while it is on loan.
TxSlot_commit_forces(o, i) ==
    [tx |-> IF i.st \in {"Filled", "Leased"} THEN Some("tx") ELSE None,
     inner |-> NoSlot]

\* TxSlot::commit, were it to find a transaction in an inner Slot that a steal
\* has emptied.
TxSlot_commit_recommits(o, i) ==
    LET s == flatten(into_inner(o))
    IN  IF s = None
        THEN [tx |-> None, inner |-> i]
        ELSE [tx |-> IF i.st \in {"Filled", "Empty"} THEN Some("tx") ELSE None,
              inner |-> NoSlot]

\* TxSlot::commit, were it to await the return of a lease on the inner Slot
\* and commit the transaction it gets back.
TxSlot_commit_awaits(o, i) ==
    LET s == flatten(into_inner(o))
    IN  IF i.st = "Leased"
        THEN [tx |-> Some("tx"), inner |-> NoSlot]
        ELSE IF s = None
             THEN [tx |-> None, inner |-> i]
             ELSE [tx |-> into_inner(i), inner |-> NoSlot]

\* TxSlot::commit(self), up to the commit call: the transaction to commit
\* (self.0.into_inner().flatten().and_then(Slot::into_inner)) and what is
\* left of the inner Slot i.
TxSlot_commit(o, i) ==
    LET s == flatten(into_inner(o))
    IN  IF s = None
        THEN [tx |-> None, inner |-> i]
        ELSE [tx |-> into_inner(i), inner |-> NoSlot]

\* Drop of the TxSlot, were it to forget what the outer Slot holds.
TxSlot_drop_forgets(o, i) == [inner |-> i, dropped |-> 0]

\* Drop of the TxSlot without commit: what the outer Slot holds is dropped.
TxSlot_drop(o, i) == drop_option_slot(flatten(into_inner(o)), i)

-----------------------------------------------------------------------------
(* Initial states *)

\* The fields of a request that has not arrived.
InitFields ==
    /\ bag = [r \in Reqs |-> PlainRequest]
    /\ outer = [r \in Reqs |-> NoSlot]
    /\ inner = [r \in Reqs |-> NoSlot]
    /\ handles = [r \in Reqs |-> 0]
    /\ granted = [r \in Reqs |-> 0]
    /\ begins = [r \in Reqs |-> 0]
    /\ begun = [r \in Reqs |-> 0]
    /\ commits = [r \in Reqs |-> 0]
    /\ mwCommits = [r \in Reqs |-> 0]
    /\ persisted = [r \in Reqs |-> 0]
    /\ rollbacks = [r \in Reqs |-> 0]
    /\ status = [r \in Reqs |-> 0]
    /\ finalize = [r \in Reqs |-> "none"]
    /\ response = [r \in Reqs |-> NoResponse]
    /\ result = [r \in Reqs |-> "none"]
    /\ calls = [r \in Reqs |-> 0]
    /\ rejection = [r \in Reqs |-> NoRejection]

\* One request arrives, at an app with or without the Layer.
Init ==
    /\ pc = [r \in Reqs |-> IF r = "r1" THEN "start" ELSE "idle"]
    /\ \E l \in BOOLEAN, e \in ErrorTypes :
          /\ layered = [r \in Reqs |-> r = "r1" /\ l]
          /\ layerE = [r \in Reqs |-> IF r = "r1" /\ l THEN e ELSE "Error"]
    /\ InitFields

\* Two requests arrive at one app (one Layer, so one error type E); each
\* takes its own Service::call.
InitMulti ==
    /\ pc = [r \in Reqs |-> "start"]
    /\ \E l \in BOOLEAN, e \in ErrorTypes :
          /\ layered = [r \in Reqs |-> l]
          /\ layerE = [r \in Reqs |-> IF l THEN e ELSE "Error"]
    /\ InitFields

-----------------------------------------------------------------------------
(* Service::call *)

\* Service::call up to the inner service's call, were the TxSlot one slot
\* that every request binds anew.
call_shared(r) ==
    /\ pc[r] = "start"
    /\ layered[r]
    /\ pc' = [pc EXCEPT ![r] = "downstream"]
    /\ outer' = [q \in Reqs |-> bind.slot]
    /\ bag' = [bag EXCEPT ![r] = bind.request]
    /\ UNCHANGED <<layered, layerE, inner, handles, granted, begins, begun, commits,
                   mwCommits, persisted, rollbacks, status, finalize, response,
                   result, calls, rejection>>

\* Service::call up to the inner service's call: the TxSlot is bound to the
\* request's extensions and the request handed to the inner service.
call(r) ==
    /\ pc[r] = "start"
    /\ layered[r]
    /\ pc' = [pc EXCEPT ![r] = "downstream"]
    /\ outer' = [outer EXCEPT ![r] = bind.slot]
    /\ bag' = [bag EXCEPT ![r] = bind.request]
    /\ UNCHANGED <<layered, layerE, inner, handles, granted, begins, begun, commits,
                   mwCommits, persisted, rollbacks, status, finalize, response,
                   result, calls, rejection>>

\* An app without the Layer hands the request to the handler as it is.
unlayered(r) ==
    /\ pc[r] = "start"
    /\ ~layered[r]
    /\ pc' = [pc EXCEPT ![r] = "downstream"]
    /\ UNCHANGED <<layered, layerE, bag, outer, inner, handles, granted, begins, begun,
                   commits, mwCommits, persisted, rollbacks, status, finalize,
                   response, result, calls, rejection>>

\* Service::call, were it to return the downstream response whatever commit
\* returned.
call_response_downstream(E, s, failed) == [kind |-> "downstream", status |-> s]

\* Service::call, were it to answer with the error whatever commit returned.
call_response_error(E, s, failed) ==
    [kind |-> "Error::Database", status |-> into_response(E)]

\* The response Service::call returns for a downstream response of status s:
\* the error E makes of Error::Database if the commit failed, the downstream
\* response otherwise.
call_response(E, s, failed) ==
    IF failed
    THEN [kind |-> "Error::Database", status |-> into_response(E)]
    ELSE [kind |-> "downstream", status |-> s]

\* The future of Service::call from the inner service's answer on, were it to
\* wait until every lease on its slots has been returned.
call_async_waits(r, s, commitOk) ==
    /\ pc[r] = "downstream"
    /\ layered[r]
    /\ handles[r] = 0 /\ outer[r].st # "Leased" /\ inner[r].st # "Leased"
    /\ pc' = [pc EXCEPT ![r] = "done"]
    /\ status' = [status EXCEPT ![r] = s]
    /\ outer' = [outer EXCEPT ![r] = NoSlot]
    /\ IF is_success(s)
       THEN LET c == TxSlot_commit(outer[r], inner[r])
                n == IF c.tx = None THEN 0 ELSE 1
                failed == n = 1 /\ ~commitOk
            IN  /\ inner' = [inner EXCEPT ![r] = c.inner]
                /\ commits' = [commits EXCEPT ![r] = @ + n]
                /\ mwCommits' = [mwCommits EXCEPT ![r] = @ + n]
                /\ persisted' = [persisted EXCEPT ![r] = @ + (IF failed THEN 0 ELSE n)]
                /\ finalize' = [finalize EXCEPT ![r] = IF failed THEN "Err" ELSE "Ok"]
                /\ response' = [response EXCEPT ![r] =
                       call_response(layerE[r], s, failed)]
                /\ UNCHANGED rollbacks
       ELSE LET d == TxSlot_drop(outer[r], inner[r])
            IN  /\ inner' = [inner EXCEPT ![r] = d.inner]
                /\ rollbacks' = [rollbacks EXCEPT ![r] = @ + d.dropped]
                /\ response' = [response EXCEPT ![r] =
                       call_response(layerE[r], s, FALSE)]
                /\ UNCHANGED <<commits, mwCommits, persisted, finalize>>
    /\ UNCHANGED <<layered, layerE, bag, handles, granted, begins, begun, result, calls, rejection>>

\* The future of Service::call from the inner service's answer on, a
\* response of status s: on a 2xx status TxSlot::commit runs (commitOk:
\* whether the commit it may call succeeds) and its failure replaces the
\* response; otherwise the TxSlot is dropped at the end of the block.  What
\* downstream moved elsewhere (a Tx or the Request given to a spawned task or
\* put in the response) lives on.
call_async(r, s, commitOk) ==
    /\ pc[r] = "downstream"
    /\ layered[r]
    /\ pc' = [pc EXCEPT ![r] = "done"]
    /\ status' = [status EXCEPT ![r] = s]
    /\ outer' = [outer EXCEPT ![r] = NoSlot]
    /\ IF is_success(s)
       THEN LET c == TxSlot_commit(outer[r], inner[r])
                n == IF c.tx = None THEN 0 ELSE 1
                failed == n = 1 /\ ~commitOk
            IN  /\ inner' = [inner EXCEPT ![r] = c.inner]
                /\ commits' = [commits EXCEPT ![r] = @ + n]
                /\ mwCommits' = [mwCommits EXCEPT ![r] = @ + n]
                /\ persisted' = [persisted EXCEPT ![r] = @ + (IF failed THEN 0 ELSE n)]
                /\ finalize' = [finalize EXCEPT ![r] = IF failed THEN "Err" ELSE "Ok"]
                /\ response' = [response EXCEPT ![r] =
                       call_response(layerE[r], s, failed)]
                /\ UNCHANGED rollbacks
       ELSE LET d == TxSlot_drop(outer[r], inner[r])
            IN  /\ inner' = [inner EXCEPT ![r] = d.inner]
                /\ rollbacks' = [rollbacks EXCEPT ![r] = @ + d.dropped]
                /\ response' = [response EXCEPT ![r] =
                       call_response(layerE[r], s, FALSE)]
                /\ UNCHANGED <<commits, mwCommits, persisted, finalize>>
    /\ UNCHANGED <<layered, layerE, bag, handles, granted, begins, begun, result, calls, rejection>>

\* Without the Layer the handler's response, of status s, is the response.
unlayered_return(r, s) ==
    /\ pc[r] = "downstream"
    /\ ~layered[r]
    /\ pc' = [pc EXCEPT ![r] = "done"]
    /\ status' = [status EXCEPT ![r] = s]
    /\ response' = [response EXCEPT ![r] = [kind |-> "downstream", status |-> s]]
    /\ UNCHANGED <<layered, layerE, bag, outer, inner, handles, granted, begins,
                   begun, commits, mwCommits, persisted, rollbacks, finalize,
                   result, calls, rejection>>

\* The future of Service::call is dropped while the inner service runs (the
\* client went away): the TxSlot it owns is dropped, no response is made.
cancel(r) ==
    /\ pc[r] = "downstream"
    /\ layered[r]
    /\ pc' = [pc EXCEPT ![r] = "cancelled"]
    /\ outer' = [outer EXCEPT ![r] = NoSlot]
    /\ LET d == TxSlot_drop(outer[r], inner[r])
       IN  /\ inner' = [inner EXCEPT ![r] = d.inner]
           /\ rollbacks' = [rollbacks EXCEPT ![r] = @ + d.dropped]
    /\ UNCHANGED <<layered, layerE, bag, handles, granted, begins, begun, commits,
                   mwCommits, persisted, status, finalize, response, result, calls, rejection>>

-----------------------------------------------------------------------------
(* What downstream does with the Request and with a Tx *)

\* Downstream is at work on request r: from the inner service's call on.
\* What it moved out of the handler may act after the response too.
Downstream(r) == pc[r] \in {"downstream", "done", "cancelled"}

\* The lookup, were it to make up a fresh Lazy where the extensions hold none.
extensions_get_or_default(req) == IF req.has = "none" THEN None ELSE Some(req.tx)

\* req.extensions_mut().get_mut::<Lazy<C>>() in from_request: the Lazy of the
\* Request's extensions (given as the Option its lease holds), if there is one.
extensions_get_mut(req) == IF req.has = "lazy" THEN Some(req.tx) ELSE None

\* from_request, were it to borrow the Request (the Lazy lives on, its lease
\* holding tx).
from_request_borrows(req, tx) == [req EXCEPT !.tx = tx]

\* What from_request leaves of the Request req it was given: nothing.  req is
\* taken by value (mut req: Request<B>) and dropped when from_request
\* returns, on every path, and its extensions with it.
from_request_leaves(req, tx) == NoRequest

\* Tx::<C, E>::from_request(req, state).  withExt: req is the Request downstream
\* holds, with the extensions the middleware filled (otherwise req is a
\* Request downstream made up, whose extensions hold no Lazy).  beginOk:
\* whether pool.begin() succeeds if it is called.
from_request(r, E, withExt, beginOk) ==
    /\ Downstream(r)
    /\ calls[r] < MaxCalls
    /\ IF withExt THEN bag[r].has # "none" ELSE pc[r] = "downstream"
    /\ calls' = [calls EXCEPT ![r] = @ + 1]
    /\ LET req == IF withExt THEN bag[r] ELSE PlainRequest
           ext == extensions_get_mut(req)
       IN  IF ext = None
           THEN /\ result' = [result EXCEPT ![r] = "MissingExtension"]
                /\ rejection' = [rejection EXCEPT ![r] =
                       rejection_of(E, "MissingExtension")]
                /\ bag' = [bag EXCEPT ![r] =
                       IF withExt THEN from_request_leaves(req, None) ELSE @]
                /\ UNCHANGED <<handles, granted, begins, begun, outer, inner, rollbacks>>
           ELSE LET g == get_or_begin(ext[1], inner[r], beginOk)
                    left == from_request_leaves(req, g.tx)
                    d == IF left.has = "none"
                         THEN Lazy_drop(g.tx, outer[r], g.inner)
                         ELSE [outer |-> outer[r], inner |-> g.inner, dropped |-> 0]
                    n == IF g.res = "Ok" THEN 1 ELSE 0
                IN  /\ result' = [result EXCEPT ![r] = g.res]
                    /\ rejection' = [rejection EXCEPT ![r] = rejection_of(E, g.res)]
                    /\ bag' = [bag EXCEPT ![r] = left]
                    /\ handles' = [handles EXCEPT ![r] = @ + n]
                    /\ granted' = [granted EXCEPT ![r] = @ + n]
                    /\ begins' = [begins EXCEPT ![r] = @ + g.began]
                    /\ begun' = [begun EXCEPT ![r] = @ + g.ok]
                    /\ outer' = [outer EXCEPT ![r] = d.outer]
                    /\ inner' = [inner EXCEPT ![r] = d.inner]
                    /\ rollbacks' = [rollbacks EXCEPT ![r] = @ + d.dropped]
    /\ UNCHANGED <<pc, layered, layerE, commits, mwCommits, persisted, status,
                   finalize, response>>

\* Downstream drops the Request without extracting a Tx from it.
drop_request(r) ==
    /\ Downstream(r)
    /\ bag[r].has # "none"
    /\ bag' = [bag EXCEPT ![r] = NoRequest]
    /\ IF bag[r].has = "lazy"
       THEN LET d == Lazy_drop(bag[r].tx, outer[r], inner[r])
            IN  /\ outer' = [outer EXCEPT ![r] = d.outer]
                /\ inner' = [inner EXCEPT ![r] = d.inner]
                /\ rollbacks' = [rollbacks EXCEPT ![r] = @ + d.dropped]
       ELSE UNCHANGED <<outer, inner, rollbacks>>
    /\ UNCHANGED <<pc, layered, layerE, handles, granted, begins, begun, commits,
                   mwCommits, persisted, status, finalize, response, result, calls, rejection>>

\* A Tx is dropped, were its Lease to stay outstanding.
drop_tx_keeps_lease(r) ==
    /\ handles[r] > 0
    /\ handles' = [handles EXCEPT ![r] = @ - 1]
    /\ UNCHANGED <<pc, layered, layerE, bag, outer, inner, granted, begins, begun,
                   commits, mwCommits, persisted, rollbacks, status, finalize,
                   response, result, calls, rejection>>

\* A Tx is dropped: its Lease<DatabaseTransaction> gives the transaction back
\* to the inner Slot, or drops it if that Slot is gone.
drop_tx(r) ==
    /\ handles[r] > 0
    /\ handles' = [handles EXCEPT ![r] = @ - 1]
    /\ inner' = [inner EXCEPT ![r] = release(@, "tx")]
    /\ rollbacks' = [rollbacks EXCEPT ![r] = @ + (IF returns(inner[r]) THEN 0 ELSE 1)]
    /\ UNCHANGED <<pc, layered, layerE, bag, outer, granted, begins, begun, commits,
                   mwCommits, persisted, status, finalize, response, result, calls, rejection>>

\* Tx::commit, were it to commit a transaction it leaves in the inner Slot.
Tx_commit_keeps(i) == release(i, "tx")

\* Tx::commit, were it to leave the inner Slot on loan.
Tx_commit_leaves_leased(i) == i

\* self.0.steal() in Tx::commit: what it leaves of the inner Slot i.
Tx_commit_steal(i) == steal(i)

\* Tx::commit(self): the transaction is stolen from the inner Slot and
\* committed; ok: whether the commit succeeds.
Tx_commit(r, ok) ==
    /\ handles[r] > 0
    /\ handles' = [handles EXCEPT ![r] = @ - 1]
    /\ inner' = [inner EXCEPT ![r] = Tx_commit_steal(@)]
    /\ commits' = [commits EXCEPT ![r] = @ + 1]
    /\ persisted' = [persisted EXCEPT ![r] = @ + (IF ok THEN 1 ELSE 0)]
    /\ UNCHANGED <<pc, layered, layerE, bag, outer, granted, begins, begun, mwCommits,
                   rollbacks, status, finalize, response, result, calls, rejection>>

-----------------------------------------------------------------------------
(* The specification *)

Next ==
    \E r \in Reqs :
        \/ call(r)
        \/ unlayered(r)
        \/ \E s \in Statuses, ok \in BOOLEAN : call_async(r, s, ok)
        \/ \E s \in Statuses : unlayered_return(r, s)
        \/ cancel(r)
        \/ \E E \in ErrorTypes, withExt \in BOOLEAN, ok \in BOOLEAN :
              from_request(r, E, withExt, ok)
        \/ drop_request(r)
        \/ drop_tx(r)
        \/ \E ok \in BOOLEAN : Tx_commit(r, ok)

Spec == Init /\ [][Next]_vars

\* Two requests in flight, their steps interleaved in every order.
SpecMulti == InitMulti /\ [][Next]_vars

\* One request, under the scheduling the claim of completion assumes: tower
\* polls the future of Service::call, the inner service returns a response,
\* and a commit that was called returns.  Nothing is assumed of what
\* downstream does with the Request or with a Tx.
SpecLive ==
    /\ Init
    /\ [][Next]_vars
    /\ \A r \in Reqs :
          /\ WF_vars(call(r))
          /\ WF_vars(unlayered(r))
          /\ WF_vars(\E s \in Statuses, ok \in BOOLEAN : call_async(r, s, ok))
          /\ WF_vars(\E s \in Statuses : unlayered_return(r, s))

-----------------------------------------------------------------------------
(* Properties *)

\* The 2xx class of status codes.
Is2xx(s) == s \in 200..299

\* The request has ended: Service::call returned a response, or was dropped.
Ended(r) == pc[r] \in {"done", "cancelled"}

\* Request r takes a from_request step.
Extracts(r) == calls'[r] = calls[r] + 1

\* C1, as the spec states it: when the middleware finishes a request whose
\* downstream response is 2xx and in which an accessor call acquired the
\* transaction, then as it returns commit has been called exactly once on the
\* transaction and the transaction has not been dropped uncommitted.
C1_Original ==
    [][\A r \in Reqs :
          (/\ pc[r] = "downstream" /\ pc'[r] = "done"
           /\ layered[r] /\ Is2xx(status'[r]) /\ granted[r] > 0)
              => (commits'[r] = 1 /\ rollbacks'[r] = 0)]_vars

\* C1, amended: when the middleware finishes a request whose downstream
\* response is 2xx, in which an accessor call acquired the transaction and
\* no Tx is alive any more, then as it returns commit has been called exactly
\* once on the transaction and the transaction has not been dropped
\* uncommitted.
C1_CommitOnSuccess ==
    [][\A r \in Reqs :
          (/\ pc[r] = "downstream" /\ pc'[r] = "done"
           /\ layered[r] /\ Is2xx(status'[r])
           /\ granted[r] > 0 /\ handles[r] = 0)
              => (commits'[r] = 1 /\ rollbacks'[r] = 0)]_vars

\* C1, its case: the middleware committed the transaction of a 2xx response.
C1_Witness ==
    \E r \in Reqs :
        /\ pc[r] = "done" /\ Is2xx(status[r]) /\ granted[r] > 0
        /\ mwCommits[r] = 1 /\ commits[r] = 1 /\ rollbacks[r] = 0

\* C2, as the spec states it: when the middleware finishes a request whose
\* downstream response is non-success, commit has never been called on the
\* request's transaction, and a transaction that was acquired (and that no
\* Tx still holds) has been dropped uncommitted.
C2_Original ==
    [][\A r \in Reqs :
          (pc[r] = "downstream" /\ pc'[r] = "done" /\ layered[r] /\ ~Is2xx(status'[r]))
              => /\ commits'[r] = 0
                 /\ (granted[r] > 0 /\ handles[r] = 0) => rollbacks'[r] = 1]_vars

\* C2, amended: for a non-success downstream response the middleware never
\* calls commit; once the middleware has returned and no Tx is alive, an
\* acquired transaction has been dropped uncommitted unless a Tx::commit
\* committed it, and never both.
C2_RollbackOnNonSuccess ==
    \A r \in Reqs :
        (status[r] # 0 /\ ~Is2xx(status[r]))
            => /\ mwCommits[r] = 0
               /\ (pc[r] = "done" /\ layered[r] /\ granted[r] > 0 /\ handles[r] = 0)
                     => commits[r] + rollbacks[r] = 1

\* C2, its case: a transaction was acquired, the response was 404, and the
\* transaction was dropped uncommitted by the time the middleware returned.
C2_Witness ==
    \E r \in Reqs :
        /\ pc[r] = "done" /\ status[r] = 404 /\ granted[r] > 0 /\ handles[r] = 0
        /\ commits[r] = 0 /\ rollbacks[r] = 1

\* C3, as the spec states it: a transaction that was begun is never resolved
\* twice, and when the request ends (the middleware returns, or its future is
\* dropped) it has been resolved, by a commit or by a drop.
C3_Original ==
    [][\A r \in Reqs :
          /\ commits'[r] + rollbacks'[r] <= begun'[r]
          /\ (~Ended(r) /\ pc'[r] \in {"done", "cancelled"})
                => commits'[r] + rollbacks'[r] = begun'[r]]_vars

\* C3, amended: a transaction that was begun is never resolved more than
\* once (committed twice, or committed and dropped uncommitted), and it is
\* resolved exactly once as soon as the request has ended and no Tx holding
\* it is alive.
C3_ExactlyOnce ==
    \A r \in Reqs :
        /\ commits[r] + rollbacks[r] <= begun[r]
        /\ (Ended(r) /\ handles[r] = 0) => commits[r] + rollbacks[r] = begun[r]

\* C3, its case: a Tx committed the transaction explicitly and the middleware
\* then finished a 2xx response without a second commit.
C3_Witness ==
    \E r \in Reqs :
        /\ pc[r] = "done" /\ Is2xx(status[r]) /\ begun[r] = 1 /\ handles[r] = 0
        /\ commits[r] = 1 /\ mwCommits[r] = 0 /\ rollbacks[r] = 0

\* C4, as the spec states it: begin is called exactly once if an accessor
\* call obtained a lease, and zero times otherwise.
C4_Original ==
    \A r \in Reqs :
        /\ granted[r] > 0 => begins[r] = 1
        /\ granted[r] = 0 => begins[r] = 0

\* C4, amended: begin is called at most once per request whatever the number
\* of accessor calls; exactly once, successfully, if an accessor call
\* obtained a lease; and where no call obtained one, begin did not succeed.
C4_SingleAcquisition ==
    \A r \in Reqs :
        /\ begins[r] <= 1
        /\ granted[r] > 0 => (begins[r] = 1 /\ begun[r] = 1)
        /\ granted[r] = 0 => begun[r] = 0

\* C4, its case: two accessor calls in one request, one lease, one begin.
C4_Witness ==
    \E r \in Reqs : calls[r] = 2 /\ granted[r] = 1 /\ begins[r] = 1

\* C5, as the spec states it: an accessor call made after an earlier call of
\* the request obtained the transaction and released it (the Tx was dropped,
\* not committed) succeeds, with that transaction: no second begin.
C5_Original ==
    [][\A r \in Reqs :
          (/\ Extracts(r) /\ pc[r] = "downstream"
           /\ granted[r] > 0 /\ handles[r] = 0
           /\ commits[r] = 0 /\ rollbacks[r] = 0)
              => (result'[r] = "Ok" /\ begins'[r] = begins[r])]_vars

\* C6, as the spec states it: an accessor call made while a Tx of the same
\* request is alive returns OverlappingExtractors and hands out no Tx.
C6_Original ==
    [][\A r \in Reqs :
          (Extracts(r) /\ handles[r] > 0)
              => (result'[r] = "OverlappingExtractors" /\ handles'[r] = handles[r])]_vars

\* C7, as the spec states it: what Tx::commit committed stays committed, and
\* an accessor call made after a Tx::commit of the same request returns
\* OverlappingExtractors.
C7_Original ==
    [][\A r \in Reqs :
          /\ persisted'[r] >= persisted[r]
          /\ (Extracts(r) /\ commits[r] > mwCommits[r])
                => result'[r] = "OverlappingExtractors"]_vars

\* C8: when the middleware's commit fails (which it can only for a 2xx
\* downstream response), the response returned is the one the Layer's error
\* type makes of Error::Database, not the downstream response.
C8_FinalizeFailureOverrides ==
    \A r \in Reqs :
        finalize[r] = "Err"
            => /\ Is2xx(status[r])
               /\ response[r].kind = "Error::Database"
               /\ response[r].status = (IF layerE[r] = "Error" THEN 500 ELSE 418)

\* C8, its case: the middleware's commit failed under a caller's error type.
C8_Witness ==
    \E r \in Reqs :
        /\ pc[r] = "done" /\ finalize[r] = "Err" /\ mwCommits[r] = 1
        /\ layerE[r] = "MyError"

\* C9: on a request the Layer was not applied to, every accessor call fails
\* with MissingExtension, none returns a Tx or a database error, and begin is
\* never called.
C9_MissingBinding ==
    \A r \in Reqs :
        ~layered[r]
            => /\ result[r] \in {"none", "MissingExtension"}
               /\ begins[r] = 0
               /\ granted[r] = 0

\* C9, its case: an accessor call was made on a request without the Layer.
C9_Witness ==
    \E r \in Reqs :
        /\ pc[r] # "idle" /\ ~layered[r]
        /\ calls[r] > 0 /\ result[r] = "MissingExtension"

\* C10: when the middleware has finished a request in which no accessor call
\* was made, begin and commit were never called, TxSlot::commit (run for a
\* 2xx response) returned Ok, and the downstream response was returned.
C10_NoOpFinalize ==
    \A r \in Reqs :
        (pc[r] = "done" /\ layered[r] /\ calls[r] = 0)
            => /\ begins[r] = 0
               /\ commits[r] = 0
               /\ finalize[r] = (IF Is2xx(status[r]) THEN "Ok" ELSE "none")
               /\ response[r] = [kind |-> "downstream", status |-> status[r]]

\* C10, its case: no accessor call, the Request dropped by the handler, a 2xx
\* response, and TxSlot::commit returned Ok.
C10_Witness ==
    \E r \in Reqs :
        /\ pc[r] = "done" /\ layered[r] /\ calls[r] = 0
        /\ bag[r].has = "none" /\ Is2xx(status[r]) /\ finalize[r] = "Ok"

\* C11, as the spec states it: when the future of Service::call is dropped
\* before its finalize ran, the middleware has called no commit and a
\* transaction that was acquired (and that no Tx still holds) is dropped
\* uncommitted.
C11_Original ==
    [][\A r \in Reqs :
          (pc[r] = "downstream" /\ pc'[r] = "cancelled")
              => /\ mwCommits'[r] = 0
                 /\ (begun[r] = 1 /\ handles[r] = 0)
                       => (commits'[r] = 0 /\ rollbacks'[r] = 1)]_vars

\* C11, amended: once the future of Service::call has been dropped before
\* its finalize ran, the middleware has called no commit, has run no
\* TxSlot::commit and has made no response; and a transaction that was
\* acquired and that no Tx::commit committed has been dropped uncommitted as
\* soon as no Tx holds it.
C11_CancellationRollsBack ==
    \A r \in Reqs :
        pc[r] = "cancelled"
            => /\ mwCommits[r] = 0
               /\ finalize[r] = "none"
               /\ response[r] = NoResponse
               /\ (begun[r] = 1 /\ handles[r] = 0 /\ commits[r] = 0) => rollbacks[r] = 1
               /\ commits[r] = 1 => rollbacks[r] = 0

\* C11, its case: the transaction was acquired, its Tx dropped, and the
\* request then cancelled: the transaction was dropped uncommitted.
C11_Witness ==
    \E r \in Reqs :
        /\ pc[r] = "cancelled" /\ begun[r] = 1 /\ handles[r] = 0
        /\ commits[r] = 0 /\ rollbacks[r] = 1

\* All that belongs to request r.
Fields(r) ==
    <<pc[r], bag[r], outer[r], inner[r], handles[r], granted[r], begins[r],
      begun[r], commits[r], mwCommits[r], persisted[r], rollbacks[r], status[r],
      finalize[r], response[r], result[r], calls[r], rejection[r]>>

\* C12: with two requests in flight, a step that changes anything of one
\* request (a lease taken or returned, a Tx::commit, the middleware's commit
\* or drop, a cancellation) changes nothing of the other: not its slots, not
\* the result of its accessor calls, not its commits or rollbacks.
C12_CrossRequestIsolation ==
    [][\A r, q \in Reqs :
          (r # q /\ Fields(r)' # Fields(r)) => Fields(q)' = Fields(q)]_vars

\* C12, its case: one request holds a lease on its transaction while the
\* middleware has committed the transaction of the other.
C12_Witness ==
    \E r, q \in Reqs :
        /\ r # q
        /\ pc[r] = "downstream" /\ handles[r] = 1 /\ commits[r] = 0 /\ rollbacks[r] = 0
        /\ pc[q] = "done" /\ mwCommits[q] = 1 /\ persisted[q] = 1

\* Request r takes the step in which the middleware finalizes.
Finalizes(r) == pc[r] = "downstream" /\ pc'[r] = "done" /\ layered[r]

\* C13, as the spec states it: begin precedes every use (a Tx is alive only
\* once begin has succeeded); every use has ended when finalize drains the
\* slots (no Tx is alive, the inner slot is not on loan); and finalize is
\* complete when the middleware returns its response, after which it does
\* nothing more.
C13_Original ==
    [][\A r \in Reqs :
          /\ handles'[r] > 0 => begun'[r] = 1
          /\ Finalizes(r)
                => (handles[r] = 0 /\ inner[r].st # "Leased")
          /\ (Finalizes(r) /\ Is2xx(status'[r])) => finalize'[r] # "none"
          /\ response'[r] # NoResponse => pc'[r] = "done"
          /\ pc[r] = "done"
                => (mwCommits'[r] = mwCommits[r] /\ finalize'[r] = finalize[r]
                    /\ response'[r] = response[r])]_vars

\* C13, amended: begin precedes every use; finalize is complete when the
\* middleware returns its response, after which it does nothing more; and
\* where a lease on the outer or the inner slot is outstanding when finalize
\* drains them, finalize commits nothing.
C13_Ordering ==
    [][\A r \in Reqs :
          /\ handles'[r] > 0 => begun'[r] = 1
          /\ (Finalizes(r) /\ (outer[r].st = "Leased" \/ inner[r].st = "Leased"))
                => commits'[r] = commits[r]
          /\ (Finalizes(r) /\ Is2xx(status'[r])) => finalize'[r] # "none"
          /\ response'[r] # NoResponse => pc'[r] = "done"
          /\ pc[r] = "done"
                => (mwCommits'[r] = mwCommits[r] /\ finalize'[r] = finalize[r]
                    /\ response'[r] = response[r])]_vars

\* C13, its case: the middleware finalized a 2xx response and returned while
\* a Tx still held the transaction.
C13_Witness ==
    \E r \in Reqs :
        /\ pc[r] = "done" /\ Is2xx(status[r]) /\ finalize[r] = "Ok"
        /\ begun[r] = 1 /\ handles[r] = 1 /\ mwCommits[r] = 0
        /\ response[r].kind = "downstream"

\* The transaction of request r is in the middleware's slots: the Lazy gave
\* the inner Slot back to the outer Slot and no Tx holds the transaction.
InSlots(r) ==
    /\ outer[r].st = "Filled" /\ outer[r].val = Some(Some("inner"))
    /\ inner[r].st = "Filled"

\* C14, as the spec states it: the middleware runs its commit if and only if
\* the downstream status is 2xx; for any other status commit is not called
\* on the request's transaction, and the transaction (acquired, held by no
\* Tx) is dropped uncommitted.
C14_Original ==
    [][\A r \in Reqs :
          Finalizes(r)
              => /\ finalize'[r] # "none" <=> Is2xx(status'[r])
                 /\ ~Is2xx(status'[r])
                       => /\ mwCommits'[r] = 0
                          /\ (begun[r] = 1 /\ handles[r] = 0)
                                => (commits'[r] = 0 /\ rollbacks'[r] = 1)]_vars

\* C14, amended: the middleware runs its commit if and only if the
\* downstream status is 2xx, and then commits the transaction that is in its
\* slots; for any other status it calls no commit, and a transaction that is
\* in its slots is dropped uncommitted.
C14_SuccessIs2xx ==
    [][\A r \in Reqs :
          Finalizes(r)
              => /\ finalize'[r] # "none" <=> Is2xx(status'[r])
                 /\ Is2xx(status'[r])
                       => /\ rollbacks'[r] = rollbacks[r]
                          /\ InSlots(r) => mwCommits'[r] = mwCommits[r] + 1
                 /\ ~Is2xx(status'[r])
                       => /\ mwCommits'[r] = 0
                          /\ commits'[r] = commits[r]
                          /\ InSlots(r) => rollbacks'[r] = rollbacks[r] + 1]_vars

\* C14, its case: a redirect (3xx) was returned for a request whose
\* transaction was in the slots: no commit ran, the transaction was dropped.
C14_Witness ==
    \E r \in Reqs :
        /\ pc[r] = "done" /\ status[r] = 300 /\ begun[r] = 1
        /\ finalize[r] = "none" /\ commits[r] = 0 /\ rollbacks[r] = 1

\* The status of the response an error makes through the error type E.
StatusOf(E) == IF E = "Error" THEN 500 ELSE 418

\* C15: an accessor call that fails is answered through the error type E of
\* that call (500 for the crate's Error whatever the failure, what E makes
\* of it otherwise), also when it is made while the Tx of an earlier call
\* with another E is alive; a call that returns a Tx makes no response; and a
\* failed commit of the middleware is answered through the Layer's E.
C15_ErrorToResponse ==
    [][\A r \in Reqs :
          /\ Extracts(r)
                => /\ result'[r] \in {"Ok", "MissingExtension",
                                      "OverlappingExtractors", "Database"}
                   /\ result'[r] = "Ok" => rejection'[r] = NoRejection
                   /\ result'[r] # "Ok"
                         => /\ rejection'[r].by \in ErrorTypes
                            /\ rejection'[r].status = StatusOf(rejection'[r].by)
                   /\ handles[r] > 0 => rejection'[r].by \in ErrorTypes
          /\ (Finalizes(r) /\ finalize'[r] = "Err")
                => response'[r].status = StatusOf(layerE[r])]_vars

\* C15, its case: under a Layer with the crate's Error, a second accessor
\* call with a caller's error type failed while the first Tx was alive, and
\* was answered by the caller's type.
C15_Witness ==
    \E r \in Reqs :
        /\ layerE[r] = "Error" /\ calls[r] = 2 /\ handles[r] = 1
        /\ result[r] # "Ok" /\ rejection[r] = [by |-> "MyError", status |-> 418]

C17_LeaseReturn ==
    [][\A r \in Reqs :
          /\ (handles'[r] = handles[r] - 1 /\ commits'[r] = commits[r]
               /\ inner[r].st = "Leased")
                => /\ inner'[r].st = "Filled"
                   /\ lease(inner'[r]).lease = Some("tx")
                   /\ rollbacks'[r] = rollbacks[r]
          /\ (bag[r].has = "lazy" /\ bag'[r].has = "none" /\ outer[r].st = "Leased")
                => /\ outer'[r].st = "Filled"
                   /\ lease(outer'[r]).lease =
                         Some(IF begun'[r] = 1 THEN Some("inner") ELSE None)]_vars

\* C17, its case: the Lazy and then the Tx were dropped while the request was
\* processed; the transaction is back in the inner slot, the inner slot in the
\* outer slot.
C17_Witness ==
    \E r \in Reqs :
        /\ pc[r] = "downstream" /\ granted[r] = 1 /\ handles[r] = 0
        /\ inner[r] = [st |-> "Filled", val |-> Some("tx")]
        /\ outer[r] = [st |-> "Filled", val |-> Some(Some("inner"))]

\* C18: steal is permanent.  Tx::commit leaves the inner slot Empty, and an
\* Empty slot stays Empty for as long as it exists, whatever step follows:
\* lease() on it returns None, into_inner yields nothing, and no Tx of the
\* request is handed out or alive afterwards.
C18_StealIsPermanent ==
    [][\A r \in Reqs :
          /\ (commits'[r] = commits[r] + 1 /\ mwCommits'[r] = mwCommits[r]
               /\ inner[r].st = "Leased")
                => inner'[r].st = "Empty"
          /\ inner[r].st = "Empty"
                => /\ inner'[r].st \in {"Empty", "Absent"}
                   /\ lease(inner'[r]).lease = None
                   /\ into_inner(inner'[r]) = None
                   /\ handles'[r] = 0
                   /\ granted'[r] = granted[r]
                   /\ commits'[r] = commits[r]]_vars

\* C18, its case: after a Tx::commit a further accessor call was made; the
\* inner slot is still Empty.
C18_Witness ==
    \E r \in Reqs :
        /\ pc[r] = "downstream" /\ inner[r].st = "Empty"
        /\ commits[r] = 1 /\ calls[r] = 2 /\ result[r] # "Ok"

\* C19, as the spec states it: an accessor call in which begin fails returns
\* the database error, stores no inner slot and hands out no lease; and the
\* next accessor call of the request calls begin again, so that it returns a
\* Tx or, once more, the database error.
C19_Original ==
    [][\A r \in Reqs :
          /\ (Extracts(r) /\ begins'[r] = begins[r] + 1 /\ begun'[r] = begun[r])
                => /\ result'[r] = "Database"
                   /\ handles'[r] = handles[r]
                   /\ inner'[r] = NoSlot
          /\ (Extracts(r) /\ pc[r] = "downstream" /\ result[r] = "Database")
                => /\ begins'[r] = begins[r] + 1
                   /\ result'[r] \in {"Ok", "Database"}]_vars

C21_ResponseUnchanged ==
    \A r \in Reqs :
        (pc[r] = "done" /\ layered[r])
            => /\ finalize[r] # "Err"
                     => response[r] = [kind |-> "downstream", status |-> status[r]]
               /\ finalize[r] = "Err"
                     => /\ Is2xx(status[r])
                        /\ mwCommits[r] = 1 /\ persisted[r] = 0
                        /\ response[r].status # status[r]
               /\ response[r].status # status[r] => finalize[r] = "Err"

\* C21, its case: the middleware committed the transaction of a 299 response
\* and returned that response.
C21_Witness ==
    \E r \in Reqs :
        /\ pc[r] = "done" /\ status[r] = 299 /\ mwCommits[r] = 1 /\ persisted[r] = 1
        /\ response[r] = [kind |-> "downstream", status |-> 299]

\* C22: no error is swallowed or retried.  An accessor call calls begin at
\* most once; if that begin fails the call returns the database error, hands
\* out no Tx, and is answered by its error type; every accessor call that
\* returns no Tx returns an error.  A commit of the middleware that fails is
\* reported by TxSlot::commit and becomes the response.
C22_ErrorsSurfaced ==
    [][\A r \in Reqs :
          /\ Extracts(r)
                => /\ begins'[r] <= begins[r] + 1
                   /\ (begins'[r] = begins[r] + 1 /\ begun'[r] = begun[r])
                         => /\ result'[r] = "Database"
                            /\ rejection'[r] # NoRejection
                   /\ handles'[r] = handles[r]
                         => (result'[r] # "Ok" /\ rejection'[r] # NoRejection)
          /\ (Finalizes(r) /\ mwCommits'[r] = mwCommits[r] + 1
              /\ persisted'[r] = persisted[r])
                => /\ finalize'[r] = "Err"
                   /\ response'[r].kind = "Error::Database"]_vars

\* C22, its case: begin failed in an accessor call, which returned the
\* database error and was answered by the crate's Error.
C22_Witness ==
    \E r \in Reqs :
        /\ begins[r] = 1 /\ begun[r] = 0 /\ result[r] = "Database"
        /\ rejection[r] = [by |-> "Error", status |-> 500]

\* C23: when the middleware finalizes a 2xx response of a request in which a
\* Tx::commit was called, its TxSlot::commit calls no second commit and
\* returns Ok, nothing is rolled back, what was committed stays so, and the
\* downstream response is returned unchanged.
C23_FinalizeAfterExplicitCommit ==
    [][\A r \in Reqs :
          (Finalizes(r) /\ Is2xx(status'[r]) /\ commits[r] = 1)
              => /\ commits'[r] = 1
                 /\ mwCommits'[r] = 0
                 /\ persisted'[r] = persisted[r]
                 /\ rollbacks'[r] = rollbacks[r]
                 /\ finalize'[r] = "Ok"
                 /\ response'[r] = [kind |-> "downstream", status |-> status'[r]]]_vars

\* C23, its case: the one accessor call's Tx was committed explicitly, with
\* success, and the middleware then returned the 200 response.
C23_Witness ==
    \E r \in Reqs :
        /\ pc[r] = "done" /\ status[r] = 200 /\ calls[r] = 1
        /\ commits[r] = 1 /\ persisted[r] = 1 /\ mwCommits[r] = 0
        /\ finalize[r] = "Ok" /\ response[r].status = 200

\* C24, as the spec states it: an accessor call made while a Tx of the request
\* is alive fails with OverlappingExtractors, calls no begin and leaves the
\* lease and the inner slot as they are; and the accessor call that follows
\* such a rejection, once the Tx has been dropped, returns a Tx on the same
\* transaction: no second begin.
C24_Original ==
    [][\A r \in Reqs :
          /\ (Extracts(r) /\ handles[r] > 0)
                => /\ result'[r] = "OverlappingExtractors"
                   /\ begins'[r] = begins[r]
                   /\ handles'[r] = handles[r]
                   /\ inner'[r] = inner[r]
          /\ (Extracts(r) /\ pc[r] = "downstream"
              /\ result[r] = "OverlappingExtractors"
              /\ handles[r] = 0 /\ inner[r].st = "Filled")
                => (result'[r] = "Ok" /\ begins'[r] = begins[r])]_vars

\* C25: when the middleware finalizes a 2xx response while the outer slot is
\* on loan to the Lazy or the inner slot to a Tx, TxSlot::commit calls no
\* commit and returns Ok, and the response is returned unchanged; and the
\* middleware calls no commit once it has returned.
C25_FinalizeWithLeaseOnLoan ==
    [][\A r \in Reqs :
          /\ (Finalizes(r) /\ Is2xx(status'[r])
              /\ (outer[r].st = "Leased" \/ inner[r].st = "Leased"))
                => /\ commits'[r] = commits[r]
                   /\ mwCommits'[r] = 0
                   /\ finalize'[r] = "Ok"
                   /\ response'[r] = [kind |-> "downstream", status |-> status'[r]]
                   /\ handles'[r] = handles[r]
          /\ pc[r] = "done" => mwCommits'[r] = mwCommits[r]]_vars

\* C25, its case: a 2xx response was returned while a Tx held the
\* transaction; the middleware committed nothing, and the transaction was
\* dropped uncommitted when the Tx was dropped later.
C25_Witness ==
    \E r \in Reqs :
        /\ pc[r] = "done" /\ Is2xx(status[r]) /\ finalize[r] = "Ok"
        /\ granted[r] = 1 /\ handles[r] = 0
        /\ commits[r] = 0 /\ rollbacks[r] = 1

\* C26: a request that arrived ends: the middleware returns a response for
\* it (or its future is dropped), whatever accessor calls, drops and
\* Tx::commit calls downstream makes and whatever leases it keeps; and the
\* finalize step is never held up by a lease: while the inner service runs,
\* the middleware can always take its response.
C26_EveryRequestCompletes ==
    /\ \A r \in Reqs :
          pc[r] = "start"
              ~> ((pc[r] = "done" /\ response[r] # NoResponse) \/ pc[r] = "cancelled")
    /\ [](\A r \in Reqs :
            (pc[r] = "downstream" /\ layered[r])
                => ENABLED (\E s \in Statuses, ok \in BOOLEAN : call_async(r, s, ok)))

\* C26, its case: the middleware returned a response after two accessor calls
\* while a Tx still held the lease on the inner slot.
C26_Witness ==
    \E r \in Reqs :
        /\ pc[r] = "done" /\ response[r] # NoResponse /\ layered[r]
        /\ calls[r] = 2 /\ handles[r] = 1 /\ inner[r].st = "Absent"

=============================================================================
